---- MODULE Spec2Model ----
(***************************************************************************)
(* archstats: an IOC that polls an EPICS Archiver Appliance for metrics,   *)
(* publishes them as PVs (Slots) grouped per appliance, and snapshots each *)
(* group into Elasticsearch.                                               *)
(*                                                                         *)
(* The model follows src/archstats/archstats.py (Archstats, the value      *)
(* helpers) and src/archstats/db_backed.py (Request, JSONRequestGroup,     *)
(* DatabaseBackedJSONRequestGroup, ElasticHandler).  Three kinds of tasks  *)
(* run: the bootstrap (Archstats.__ainit__), which finishes before the     *)
(* server starts; then, concurrently, the updater startup hook and one     *)
(* db_helper startup hook per group.  A step of the model is the code      *)
(* between two awaits.                                                     *)
(***************************************************************************)
EXTENDS Integers, Sequences, FiniteSets, TLC

VARIABLES
    upstream,         \* per endpoint: the bodies it can answer with in this run
    instances,        \* the appliance instances getApplianceMetrics lists
    hashseed,         \* the seed of this process's str hash (PYTHONHASHSEED)
    call,             \* a call of the value coercer: its arguments and its result
    storing,          \* per group: the store() calls begun and not yet ended
    document,         \* per group: the document a store() in flight has built
    dated_index,      \* per group: ElasticHandler._dated_index, and whether its
                      \* indices.create is awaited
    now,              \* the wall clock, in seconds (datetime.now / time.time)
    pcMain,           \* position of Archstats.__ainit__
    clsdict,          \* from_request: the attributes collected so far
    key_to_attr_map,  \* per group: item name -> attribute name
    slots,            \* per group: attribute -> [value, timestamp] (the pvproperties)
    last_response,    \* per Request: None or Response(timestamp, raw, data)
    dynamic_groups,   \* Archstats._dynamic_groups
    document_count,   \* Archstats._document_count
    init_document,    \* per group: DatabaseBackedJSONRequestGroup.init_document
    es,               \* per group: the documents of its Elasticsearch index
    pcU,              \* position of Archstats.updater
    items,            \* updater: the response being iterated in _update_group
    changed,          \* updater: the local `changed` of _update_group
    passes,           \* number of passes of the updater's while loop started
    pcS,              \* per group: position of the db_helper startup hook
    rdoc,             \* per group: the document the startup hook restores from
    log,              \* the log records emitted so far
    hist              \* history of the run (network calls, store calls, pass facts)

vars == <<upstream, instances, hashseed, call, storing, dated_index, document, now, pcMain, clsdict, key_to_attr_map, slots, last_response,
          dynamic_groups, document_count, init_document, es, pcU, items,
          changed, passes, pcS, rdoc, log, hist>>

-----------------------------------------------------------------------------
(* Bounds of the model.                                                    *)

\* passes of the updater's `while True` loop that are explored
MaxPasses == 2
\* the startup hooks end before pass MaxHookPasses + 1 of the updater starts
MaxHookPasses == 1

(* Program constants.                                                      *)

\* Request.cache_period (2.0 seconds)
cache_period == 2
\* Archstats.update_rate
update_rate == 60
\* the sleep after a failed pass (10.0 seconds)
backoff_sleep == 10
\* the seconds of a day: a date suffix such as date_suffix_format changes daily
SecondsPerDay == 86400

None == [none |-> TRUE]

\* the local `document` of a store() that has not reached create_document
Unbuilt == [unbuilt |-> TRUE]

\* ElasticHandler._dated_index before the first store(): None
NoIndex == -1

\* the absent '@timestamp' key of a document
NoTimestamp == -1
\* when the documents of earlier runs were written
PastTime == 0

-----------------------------------------------------------------------------
(* Values.  A typed value is [kind, v]: kind is the Python type, v the     *)
(* repr of the value.                                                      *)

TV(kind, v) == [kind |-> kind, v |-> v]

NaN == TV("float", "nan")
Inf == TV("float", "inf")

IsNaN(x) == x.kind = "float" /\ x.v = "nan"

\* math.isnan(value): TypeError for a str
IsNumber(x) == x.kind \in {"bool", "int", "float"}

\* the numeric value, for Python's cross-type ==, of the finite numbers used
NumOf(x) ==
    CASE x.v = "True" -> 2
      [] x.v = "1"    -> 2
      [] x.v = "1.0"  -> 2
      [] x.v = "2"    -> 4
      [] x.v = "2.0"  -> 4
      [] x.v = "1.5"  -> 3
      [] x.v = "0.0"  -> 0
      [] x.v = "0"    -> 0
      [] x.v = "inf"  -> 1000
      [] OTHER        -> -1

\* Python's a != b on two values: NaN differs from everything, itself included
PyNe(a, b) ==
    IF IsNaN(a) \/ IsNaN(b) THEN TRUE
    ELSE IF IsNumber(a) /\ IsNumber(b) THEN NumOf(a) # NumOf(b)
    ELSE a # b

-----------------------------------------------------------------------------
(* archstats.py: the value coercer and the transformers.                   *)

FLOAT_KEYS == {
    "time_copy_data_into_store",
    "time_copy_data_into_store_percent",
    "aggregated_appliance_event_rate_in_events_per_sec",
    "benchmark_writing_at_mb_per_sec",
    "data_rate_in_mb_per_year",
    "data_rate_in_gb_per_year" }

\* archiver_literal_eval on the value strings of this model (none holds a
\* comma): 'NaN' is math.nan, then ast.literal_eval(value); "1e999" evaluates
\* to inf, and a string literal_eval rejects comes back as is
archiver_literal_eval(value) ==
    IF value = "NaN" THEN NaN
    ELSE CASE value = "1"     -> TV("int", "1")
           [] value = "2"     -> TV("int", "2")
           [] value = "1.5"   -> TV("float", "1.5")
           [] value = "1e999" -> Inf
           [] OTHER           -> TV("str", value)

\* float(value)
ToFloat(x) ==
    CASE x.kind = "float" -> x
      [] x.v = "1"        -> TV("float", "1.0")
      [] x.v = "2"        -> TV("float", "2.0")
      [] OTHER            -> x

_maybe_make_float(key, x) == IF key \in FLOAT_KEYS THEN ToFloat(x) ELSE x

\* key_to_pv(key) on the keys of this model
key_to_pv(key) ==
    CASE key = "Pv Count"   -> "PvCount"
      [] key = "PV count"   -> "PvCount"
      [] key = "Event Rate" -> "EventRate"
      [] key = "New Metric" -> "NewMetric"
      [] key = "1st Metric" -> "1stMetric"
      [] key = "Key To Attr Map" -> "KeyToAttrMap"
      [] OTHER              -> key

\* the record kind chosen from type(value)
RecordOf(x) ==
    CASE x.kind = "bool"  -> "bi"
      [] x.kind = "float" -> "ai"
      [] x.kind = "int"   -> "longin"
      [] x.kind = "str"   -> "stringin"
      [] OTHER            -> "KeyError"

_value_to_pvproperty_kwargs(name, key, value) ==
    LET x == _maybe_make_float(key, archiver_literal_eval(value))
    IN  [name |-> name, value |-> x, record |-> RecordOf(x)]

-----------------------------------------------------------------------------
(* The value coercer on character strings.  A raw string is a sequence of  *)
(* characters; the strings considered are those over digits, ',' '.' '-'   *)
(* and the words True, False, None, NaN and ok.  A value is                *)
(* [kind, num, frac, text]: kind is the Python type (or the exception      *)
(* raised), a number is num / 10^frac, text is the content of a str.       *)

Digits == {"0", "1", "2", "3", "4", "5", "6", "7", "8", "9"}

DigitVal(c) ==
    CASE c = "0" -> 0 [] c = "1" -> 1 [] c = "2" -> 2 [] c = "3" -> 3
      [] c = "4" -> 4 [] c = "5" -> 5 [] c = "6" -> 6 [] c = "7" -> 7
      [] c = "8" -> 8 [] c = "9" -> 9

Val(kind, num, frac, text) == [kind |-> kind, num |-> num, frac |-> frac, text |-> text]

Raises(kind) == Val(kind, 0, 0, << >>)

IsRaise(x) == x.kind \in {"SyntaxError", "ValueError", "TypeError", "KeyError"}

WordTrue == <<"T", "r", "u", "e">>
WordFalse == <<"F", "a", "l", "s", "e">>
WordNone == <<"N", "o", "n", "e">>
WordNaN == <<"N", "a", "N">>
WordOk == <<"o", "k">>

\* RE_NUMBER_WITH_COMMA.match(value): ^[0-9,.]+$
RE_NUMBER_WITH_COMMA(s) ==
    Len(s) > 0 /\ \A i \in 1..Len(s) : s[i] \in Digits \cup {",", "."}

KeepCommas(s) == s

\* value.replace(',', '')
StripCommas(s) == SelectSeq(s, LAMBDA c : c # ",")

IsDigits(s) == Len(s) > 0 /\ \A i \in 1..Len(s) : s[i] \in Digits

\* a decimal integer literal: no leading zero unless every digit is a zero
IsIntLit(s) == IsDigits(s) /\ (s[1] # "0" \/ \A i \in 1..Len(s) : s[i] = "0")

\* a point float literal: digits with one '.', at least one digit
IsPointLit(s) ==
    /\ Len(s) >= 2
    /\ Cardinality({i \in 1..Len(s) : s[i] = "."}) = 1
    /\ \A i \in 1..Len(s) : s[i] \in Digits \cup {"."}

\* the operand of a single unary minus
Unsigned(s) == IF Len(s) > 0 /\ s[1] = "-" THEN Tail(s) ELSE s

Sign(s) == IF Len(s) > 0 /\ s[1] = "-" THEN -1 ELSE 1

RECURSIVE DecVal(_)
DecVal(s) == IF s = << >> THEN 0 ELSE 10 * DecVal(SubSeq(s, 1, Len(s) - 1)) + DigitVal(s[Len(s)])

RECURSIVE Reduce(_, _)
\* num / 10^frac without trailing zeros in the fraction
Reduce(num, frac) ==
    IF frac > 0 /\ num % 10 = 0 THEN Reduce(num \div 10, frac - 1)
    ELSE [num |-> num, frac |-> frac]

\* the float a signed digit string with at most one '.' denotes
PointVal(s) ==
    LET u == Unsigned(s)
        dot == IF \E i \in 1..Len(u) : u[i] = "."
               THEN CHOOSE i \in 1..Len(u) : u[i] = "." ELSE Len(u) + 1
        digs == SelectSeq(u, LAMBDA c : c # ".")
        r == Reduce(DecVal(digs), IF dot > Len(u) THEN 0 ELSE Len(u) - dot)
    IN  Val("float", Sign(s) * r.num, r.frac, << >>)

\* one element of a literal: a number under at most one unary minus, or '...'
ElemKind(s) ==
    IF s = <<".", ".", ".">> THEN "ellipsis"
    ELSE IF IsIntLit(Unsigned(s)) THEN "int"
    ELSE IF IsPointLit(Unsigned(s)) THEN "float"
    ELSE "none"

RECURSIVE Split(_)
\* s.split(',')
Split(s) ==
    IF \A i \in 1..Len(s) : s[i] # "," THEN << s >>
    ELSE LET i == CHOOSE j \in 1..Len(s) :
                      s[j] = "," /\ \A k \in 1..(j - 1) : s[k] # ","
         IN  << SubSeq(s, 1, i - 1) >> \o Split(SubSeq(s, i + 1, Len(s)))

\* ast.literal_eval(value): a comma makes a tuple display, which may end
\* with a comma; anything outside the literal grammar raises
literal_eval(s) ==
    IF s = WordTrue THEN Val("bool", 1, 0, << >>)
    ELSE IF s = WordFalse THEN Val("bool", 0, 0, << >>)
    ELSE IF s = WordNone THEN Val("NoneType", 0, 0, << >>)
    ELSE IF \E i \in 1..Len(s) : s[i] = ","
    THEN LET all == Split(s)
             parts == IF all[Len(all)] = << >> THEN SubSeq(all, 1, Len(all) - 1) ELSE all
         IN  IF Len(parts) > 0 /\ \A i \in 1..Len(parts) : ElemKind(parts[i]) # "none"
             THEN Val("tuple", 0, 0, s)
             ELSE Raises("SyntaxError")
    ELSE CASE ElemKind(s) = "int"      -> Val("int", Sign(s) * DecVal(Unsigned(s)), 0, << >>)
           [] ElemKind(s) = "float"    -> PointVal(s)
           [] ElemKind(s) = "ellipsis" -> Val("ellipsis", 0, 0, << >>)
           [] OTHER                    -> Raises("SyntaxError")

\* archiver_literal_eval(value) on a character string
archiver_literal_eval_chars(s) ==
    IF s = WordNaN THEN Val("float", 0, 0, WordNaN)
    ELSE LET value == IF RE_NUMBER_WITH_COMMA(s) THEN StripCommas(s) ELSE s
             r == literal_eval(value)
         IN  IF IsRaise(r) THEN Val("str", 0, 0, value) ELSE r

\* float(value)
PyFloat(x) ==
    CASE x.kind = "float" -> x
      [] x.kind = "int"   -> Val("float", x.num, 0, << >>)
      [] x.kind = "bool"  -> Val("float", x.num, 0, << >>)
      [] x.kind = "str"   ->
            IF IsDigits(Unsigned(x.text)) \/ IsPointLit(Unsigned(x.text))
            THEN PointVal(x.text) ELSE Raises("ValueError")
      [] OTHER            -> Raises("TypeError")

maybe_make_float_chars(key, x) == IF key \in FLOAT_KEYS THEN PyFloat(x) ELSE x

\* _value_to_pvproperty_kwargs once archiver_literal_eval has returned x: the
\* float override, then the record kind looked up by type(value)
KwargsOf(key, x) ==
    LET value == maybe_make_float_chars(key, x)
    IN  IF IsRaise(value) THEN [value |-> value, record |-> value.kind]
        ELSE [value |-> value, record |-> RecordOf(value)]

\* _value_to_pvproperty_kwargs(name, key, value) on a character string
Coerce(key, s) == KwargsOf(key, archiver_literal_eval_chars(s))

-----------------------------------------------------------------------------
(* detailed_metrics_to_pvproperties.load_and_filter: the byte counts of    *)
(* the ETL, whose unit is part of the name.  A metric name is              *)
(* [stem, units], the text f'{stem}({units})'.                             *)

EtlStem == "Estimated bytes transferred in ETL"

MetricName(stem, units) == [stem |-> stem, units |-> units]

\* name.startswith('Estimated bytes transferred in ETL')
IsEtlName(name) == name.stem = EtlStem

\* bool(value) in `if value:`
Truthy(x) ==
    CASE x.kind \in {"int", "bool"} -> x.num # 0
      [] x.kind = "float"          -> x.text = WordNaN \/ x.num # 0
      [] x.kind = "str"            -> x.text # << >>
      [] x.kind = "NoneType"       -> FALSE
      [] OTHER                     -> TRUE

RECURSIVE Halve(_, _, _)
\* num / 10^frac divided by 2^k
Halve(num, frac, k) ==
    IF k = 0 THEN Reduce(num, frac)
    ELSE IF num % 2 = 0 THEN Halve(num \div 2, frac, k - 1)
    ELSE Halve(num * 5, frac + 1, k - 1)

\* value /= 1024.0
Div1024(x) ==
    IF x.kind \notin {"int", "bool", "float"} THEN Raises("TypeError")
    ELSE IF x.text = WordNaN THEN x
    ELSE LET r == Halve(x.num, x.frac, 10)
         IN  Val("float", r.num, r.frac, << >>)

\* value *= 1024.0
Mul1024(x) ==
    IF x.kind \notin {"int", "bool", "float"} THEN Raises("TypeError")
    ELSE IF x.text = WordNaN THEN x
    ELSE LET r == Reduce(x.num * 1024, x.frac)
         IN  Val("float", r.num, r.frac, << >>)

DigitChar(d) ==
    CASE d = 0 -> "0" [] d = 1 -> "1" [] d = 2 -> "2" [] d = 3 -> "3"
      [] d = 4 -> "4" [] d = 5 -> "5" [] d = 6 -> "6" [] d = 7 -> "7"
      [] d = 8 -> "8" [] d = 9 -> "9"

RECURSIVE ToDigits(_)
\* the decimal digits of n >= 0
ToDigits(n) ==
    IF n < 10 THEN << DigitChar(n) >>
    ELSE Append(ToDigits(n \div 10), DigitChar(n % 10))

RECURSIVE ZeroPad(_, _)
\* the digits s filled with zeros on the left up to length n
ZeroPad(s, n) == IF Len(s) >= n THEN s ELSE ZeroPad(<< "0" >> \o s, n)

Abs(n) == IF n < 0 THEN -n ELSE n

\* str(value): the repr of a float is written without an exponent (it is
\* between 1e-4 and 1e16 for the values of this model), that of nan is 'nan'
PyStr(x) ==
    CASE x.kind = "str"      -> x.text
      [] x.kind = "bool"     -> IF x.num = 1 THEN WordTrue ELSE WordFalse
      [] x.kind = "NoneType" -> WordNone
      [] x.kind = "int"      ->
            (IF x.num < 0 THEN << "-" >> ELSE << >>) \o ToDigits(Abs(x.num))
      [] x.kind = "float"    ->
            IF x.text = WordNaN THEN << "n", "a", "n" >>
            ELSE LET ds == ZeroPad(ToDigits(Abs(x.num)), x.frac + 1)
                     n == Len(ds) - x.frac
                 IN  (IF x.num < 0 THEN << "-" >> ELSE << >>)
                        \o SubSeq(ds, 1, n) \o << "." >>
                        \o (IF x.frac = 0 THEN << "0" >> ELSE SubSeq(ds, n + 1, Len(ds)))

\* the units of the rewritten name: f'{unitless_name}(MB)'
EtlUnits(u) == "MB"

\* one item through load_and_filter: the item yielded, or dropped when the
\* try block raises ('Failed to parse' is logged)
load_and_filter(name, raw) ==
    IF ~IsEtlName(name) THEN [dropped |-> FALSE, name |-> name, value |-> raw]
    ELSE LET value == archiver_literal_eval_chars(raw)
             scaled == IF ~Truthy(value) THEN value
                       ELSE CASE name.units = "KB" -> Div1024(value)
                              [] name.units = "GB" -> Mul1024(value)
                              [] OTHER             -> value
         IN  IF IsRaise(scaled)
             THEN [dropped |-> TRUE, name |-> name, value |-> raw]
             ELSE [dropped |-> FALSE,
                   name    |-> MetricName(name.stem, EtlUnits(name.units)),
                   value   |-> PyStr(scaled)]

-----------------------------------------------------------------------------
(* The upstream.  A response body is named by a short text; JsonLoads      *)
(* gives the list json.loads returns for it.                               *)

Item(name, value) == [name |-> name, value |-> value]

\* json.loads(metrics_string); "<html>" is not JSON
JsonLoads(text) ==
    CASE text = "count=1"   -> << Item("Pv Count", "1") >>
      [] text = "count=2"   -> << Item("Pv Count", "2") >>
      [] text = "count=1,2" -> << Item("Pv Count", "1"), Item("PV count", "2") >>
      [] text = "new,count" -> << Item("New Metric", "1"), Item("Pv Count", "2") >>
      [] text = "rate=NaN"  -> << Item("Event Rate", "NaN") >>
      [] text = "rate=inf"  -> << Item("Event Rate", "1e999") >>
      [] text = "rate=1.5"  -> << Item("Event Rate", "1.5") >>
      [] text = "rate=ok"   -> << Item("Event Rate", "ok") >>
      [] text = "1st=1"     -> << Item("1st Metric", "1") >>
      [] text = "requests=1" -> << Item("Requests", "1") >>
      [] text = "map=1"     -> << Item("Key To Attr Map", "1") >>
      [] text = "[]"        -> << >>
      [] OTHER              -> << >>

IsJson(text) == text # "<html>"

\* detailed_metrics_to_pvproperties, for metrics other than the ETL byte counts
detailed_metrics_to_pvproperties(text) ==
    LET js == JsonLoads(text)
    IN  [i \in 1..Len(js) |->
            _value_to_pvproperty_kwargs(key_to_pv(js[i].name), js[i].name, js[i].value)]

Groups == {1, 2}

\* the Requests of a group, in the order of its `requests` list.  Two of the
\* three are kept, and both deliver lists of name/value items through
\* _value_to_pvproperty_kwargs as the detailed metrics do
Sources == 1..2
NumSources == Cardinality(Sources)
Reqs == Groups \X Sources

\* what one HTTP exchange with the endpoint of Request r can give
NetOutcomes(r) ==
    {[status |-> 200, text |-> t] : t \in upstream[r] \cup {"<html>"}}
        \cup {[status |-> 500, text |-> "error"]}

\* how long the last-document query of __ainit__ takes, in seconds: no time,
\* or as long as a Request caches its response
Latency == {0, cache_period}

-----------------------------------------------------------------------------
(* db_backed.py: Request and Response.                                     *)

Response(timestamp, raw, data) == [timestamp |-> timestamp, raw |-> raw, data |-> data]

\* Response.get_time_since().total_seconds()
get_time_since(resp, t) == t - resp.timestamp

CacheHitIgnoresAge(resp, t) == cache_period # 0 /\ resp # None

\* the guard of the cached return of Request.make
CacheHit(resp, t) ==
    /\ cache_period # 0
    /\ resp # None
    /\ get_time_since(resp, t) < cache_period

MakeSwallowsStatus(resp, t, out) ==
    IF CacheHit(resp, t)
    THEN [exc |-> "none", data |-> resp.data, resp |-> resp, net |-> FALSE]
    ELSE LET data == detailed_metrics_to_pvproperties(out.text)
         IN  [exc |-> "none", data |-> data,
              resp |-> Response(t, out.text, data), net |-> TRUE]

MakeCachesFailure(resp, t, out) ==
    IF CacheHit(resp, t)
    THEN [exc |-> "none", data |-> resp.data, resp |-> resp, net |-> FALSE]
    ELSE IF out.status # 200 \/ ~IsJson(out.text)
    THEN [exc |-> "AssertionError", data |-> << >>,
          resp |-> Response(t, out.text, << >>), net |-> TRUE]
    ELSE LET data == detailed_metrics_to_pvproperties(out.text)
         IN  [exc |-> "none", data |-> data,
              resp |-> Response(t, out.text, data), net |-> TRUE]

\* Request.make called at time t, when the exchange (if one is made) gives
\* `out`: the exception raised or the data returned, the new last_response,
\* and whether a network call was made
make(resp, t, out) ==
    IF CacheHit(resp, t)
    THEN [exc |-> "none", data |-> resp.data, resp |-> resp, net |-> FALSE]
    ELSE IF out.status # 200
    THEN [exc |-> "AssertionError", data |-> << >>, resp |-> resp, net |-> TRUE]
    ELSE IF ~IsJson(out.text)
    THEN [exc |-> "JSONDecodeError", data |-> << >>, resp |-> resp, net |-> TRUE]
    ELSE LET data == detailed_metrics_to_pvproperties(out.text)
         IN  [exc |-> "none", data |-> data,
              resp |-> Response(t, out.text, data), net |-> TRUE]

-----------------------------------------------------------------------------
(* Small helpers on dicts (functions with a finite domain).                *)

EmptyMap == [x \in {} |-> x]

Put(f, k, v) == [x \in DOMAIN f \cup {k} |-> IF x = k THEN v ELSE f[x]]

Max(S) == CHOOSE x \in S : \A y \in S : y <= x

\* an emitted log record
LogRec(ev, g) == [ev |-> ev, g |-> g]

-----------------------------------------------------------------------------
(* db_backed.py: JSONRequestGroup.from_request and create_pvproperty.      *)

\* the seeds a process may hash strings with
HashSeeds == {1, 2}

\* f'json_{abs(hash(attr))}' in a process whose str hash is seeded with `seed`
FallbackAttr(attr, seed) == IF seed = 1 THEN "json_h1" ELSE "json_h2"

\* inflection.underscore(name).replace(':', '_') on the names of this model
Underscore(name) ==
    CASE name = "PvCount"   -> "pv_count"
      [] name = "EventRate" -> "event_rate"
      [] name = "NewMetric" -> "new_metric"
      [] name = "1stMetric" -> "1st_metric"
      [] name = "Requests"  -> "requests"
      [] name = "KeyToAttrMap" -> "key_to_attr_map"
      [] OTHER              -> name

\* attr.isidentifier()
IsIdentifier(attr) == attr # "1st_metric"

\* the attribute name create_pvproperty gives the item called `name`
create_pvproperty_attr(name) ==
    IF IsIdentifier(Underscore(name)) THEN Underscore(name)
    ELSE FallbackAttr(Underscore(name), hashseed)

\* the clsdict from_request starts from
InitClsdict ==
    [a \in {"requests", "key_to_attr_map"} |->
        [value |-> TV("member", a), record |-> "none"]]

\* pvproperty(name=item['name'], value=item['value'], **kwargs)
Prop(item) == [value |-> item.value, record |-> item.record]

RECURSIVE BuildItemsKeepsFirst(_, _, _)
BuildItemsKeepsFirst(cd, map, data) ==
    IF data = << >> THEN [cd |-> cd, map |-> map, shadowed |-> FALSE]
    ELSE LET item == Head(data)
             attr == create_pvproperty_attr(item.name)
             rest == BuildItemsKeepsFirst(
                         IF attr \in DOMAIN cd THEN cd ELSE Put(cd, attr, Prop(item)),
                         Put(map, item.name, attr), Tail(data))
         IN  [rest EXCEPT !.shadowed = @ \/ attr \in DOMAIN cd]

\* the body of from_request's inner loop, over a whole response:
\* clsdict[attr] = prop; key_to_attr_map[item['name']] = attr
RECURSIVE BuildItems(_, _, _)
BuildItems(cd, map, data) ==
    IF data = << >> THEN [cd |-> cd, map |-> map, shadowed |-> FALSE]
    ELSE LET item == Head(data)
             attr == create_pvproperty_attr(item.name)
             rest == BuildItems(Put(cd, attr, Prop(item)),
                                Put(map, item.name, attr), Tail(data))
         IN  [rest EXCEPT !.shadowed = @ \/ attr \in DOMAIN cd]

\* the pvproperties of the class built from clsdict, instantiated at time t
Instantiate(cd, t) ==
    [a \in {x \in DOMAIN cd : cd[x].value.kind # "member"} |->
        [value |-> cd[a].value, timestamp |-> t, record |-> cd[a].record]]

-----------------------------------------------------------------------------
(* db_backed.py: the database handler.                                     *)

\* ElasticHandler.NAN_VALUE
NAN_VALUE == TV("float", "0.0")

Doc(ts, fields) == [ts |-> ts, fields |-> fields]

ReplaceNanKeeps(value) == value

\* DatabaseHandler.replace_nan
replace_nan(value) ==
    IF IsNumber(value) /\ IsNaN(value) THEN NAN_VALUE ELSE value

Min(S) == CHOOSE x \in S : \A y \in S : x <= y

GetEarliestTimestamp(sl) == Min({sl[a].timestamp : a \in DOMAIN sl})

\* get_latest_timestamp
get_latest_timestamp(sl) == Max({sl[a].timestamp : a \in DOMAIN sl})

\* DatabaseHandler.create_document: None when there is nothing to save
create_document(sl) ==
    IF DOMAIN sl = {} THEN None
    ELSE Doc(get_latest_timestamp(sl),
             [a \in DOMAIN sl |-> replace_nan(sl[a].value)])

\* what the index holds after es.create(body=document): the document; for
\* the body None, a document without any field
Indexed(body) == IF body = None THEN Doc(NoTimestamp, EmptyMap) ELSE body

\* ElasticHandler.get_last_document on the documents `docs` of the index:
\* sorted by '@timestamp' descending, size 1; None when there is no hit
get_last_document(docs) ==
    IF docs = << >> THEN {None}
    ELSE LET top == Max({docs[i].ts : i \in 1..Len(docs)})
         IN  {docs[i] : i \in {j \in 1..Len(docs) : docs[j].ts = top}}

\* the order in which a document's fields are iterated
AttrOrder == << "pv_count", "event_rate", "new_metric", "json_h1", "json_h2" >>

FieldSeq(doc) ==
    LET F(a) == a \in DOMAIN doc.fields
    IN  SelectSeq(AttrOrder, F)

-----------------------------------------------------------------------------
(* archstats.py: the decisions of _update_group and updater.               *)

WriteRetags(prop, value, t) ==
    [value |-> value, timestamp |-> t, record |-> RecordOf(value)]

\* the pvproperty after `await prop.write(value=value)` at time t
WriteValue(prop, value, t) == [prop EXCEPT !.value = value, !.timestamp = t]

WriteReportsOnly(prop, value, t) == {[ok |-> TRUE, prop |-> prop]}

\* what a write of `value` can do: it sets the value; a value of another
\* type than the channel's may also be refused by the channel (it raises)
WriteOutcomes(prop, value, t) ==
    {[ok |-> TRUE, prop |-> WriteValue(prop, value, t)]}
        \cup (IF RecordOf(value) # prop.record
              THEN {[ok |-> FALSE, prop |-> prop]} ELSE {})

\* the items of this call of _update_group by attribute name: the value of
\* the last item processed for it, unless its write failed
Processed(last, attr, value, ok) ==
    IF ok THEN Put(last, attr, value)
    ELSE [a \in DOMAIN last \ {attr} |-> last[a]]

StoreNotAwaited == FALSE

\* `await group.db_helper.store()`: the updater waits for store() to end
StoreAwaited == TRUE

StoreWritesSentinel(sl) == [a \in DOMAIN sl |-> [sl[a] EXCEPT !.value = replace_nan(@)]]

\* the slots of a group after store(): create_document only reads them
StoreLeavesSlots(sl) == sl

\* the index name at time t: f'{self.index}{self.formatted_index_suffix}'
DatedIndex(t) == t \div SecondsPerDay

\* get_dated_index_name at time t, up to its await: a name other than
\* _dated_index is remembered, then indices.create is awaited
get_dated_index_name(di, t) ==
    IF DatedIndex(t) # di.name
    THEN [name |-> DatedIndex(t), pending |-> TRUE]
    ELSE di

NeedStoreOnlyChanged(ch, count, initdoc) == ch

\* `changed or (first_document and group.init_document is None)`
NeedStore(ch, count, initdoc) ==
    LET first_document == count = 0
    IN  ch \/ (first_document /\ initdoc = None)

\* the classes `except Exception` catches; every exception the pass raises
\* (AssertionError, a JSON or transformer error, a transport error, the
\* TypeError of iterating or indexing a pvproperty) is one
CaughtByExceptException ==
    {"AssertionError", "JSONDecodeError", "TransportError", "TypeError"}

UpdaterCatchesNoAssertion(exc) == exc \in CaughtByExceptException \ {"AssertionError"}

UpdaterCatchesNothing(exc) == FALSE

UpdaterCatches(exc) == exc \in CaughtByExceptException

UnknownKeyCreatesSlot(sl, item, t) ==
    Put(sl, create_pvproperty_attr(item.name),
        [value |-> item.value, timestamp |-> t, record |-> item.record])

\* the slots after an item whose name is not in key_to_attr_map: `continue`
UnknownKey(sl, item, t) == sl

-----------------------------------------------------------------------------
(* The initial state: nothing is built yet.  A run is given the appliance  *)
(* instances, what each endpoint can answer, and what each group's index   *)
(* holds from earlier runs.                                                *)

DocA == Doc(PastTime, [pv_count |-> TV("int", "1"), event_rate |-> NAN_VALUE])
DocB == Doc(PastTime, [pv_count |-> TV("int", "2"), event_rate |-> TV("float", "1.5")])
\* a document without '@timestamp'
DocMalformed == Doc(NoTimestamp, [pv_count |-> TV("int", "1")])

\* one appliance, every kind of payload
OneInstance ==
    {[instances |-> << 1 >>,
      hashseed  |-> 1,
      upstream  |-> [r \in Reqs |->
                        IF r = <<1, 1>> THEN f1 ELSE IF r = <<1, 2>> THEN f2 ELSE {}],
      es        |-> [g \in Groups |-> IF g = 1 THEN p ELSE << >>]] :
        f1 \in {{"count=1", "count=2"}, {"count=1,2"}, {"count=2", "new,count"}},
        f2 \in {{"rate=NaN"}, {"rate=1.5", "rate=inf"}},
        p  \in {<< >>, << DocA >>, << DocB >>, << DocMalformed >>}}

\* a document written before the Slot 'new_metric' went away
DocDrift == Doc(PastTime, [event_rate |-> TV("float", "1.5"),
                           new_metric |-> TV("int", "1")])
\* a document written by a run whose str hash was seeded with 1
DocHashed == Doc(PastTime, [json_h1 |-> TV("int", "1")])

\* one appliance whose answers drift: empty lists, a value that changes its
\* type, documents with fields the group no longer has, and a key that has
\* no valid attribute name, or the attribute name of a member of the class
DriftInstance ==
    {[instances |-> << 1 >>,
      hashseed  |-> sc.seed,
      upstream  |-> [r \in Reqs |->
                        IF r = <<1, 1>> THEN sc.f1
                        ELSE IF r = <<1, 2>> THEN {"[]", "rate=1.5", "rate=ok"} ELSE {}],
      es        |-> [g \in Groups |-> IF g = 1 THEN sc.p ELSE << >>]] :
        sc \in {[f1 |-> {"[]"}, p |-> p, seed |-> 1] :
                    p \in {<< >>, << DocB >>, << DocDrift >>}}
               \cup {[f1 |-> {"1st=1"}, p |-> << DocHashed >>, seed |-> h] :
                        h \in HashSeeds}
               \cup {[f1 |-> {f}, p |-> << >>, seed |-> 1] :
                        f \in {"requests=1", "map=1"}}}

\* two appliances with plain payloads
TwoInstances ==
    {[instances |-> << 1, 2 >>,
      hashseed  |-> 1,
      upstream  |-> [r \in Reqs |->
                        IF r = <<1, 1>> THEN {"count=1", "count=2"}
                        ELSE IF r[2] = 1 THEN {"count=1"} ELSE {"rate=1.5"}],
      es        |-> [g \in Groups |-> IF g = 1 THEN p ELSE << >>]] :
        p \in {<< >>, << DocB >>}}

\* no call of the value coercer is under way
NoCall == [st |-> "none"]

\* the updater's position: the statement it is at, the index k of the group in
\* _dynamic_groups, the Request s, the item i, and the exception being handled
IdleU == [st |-> "idle", k |-> 0, s |-> 0, i |-> 0, exc |-> "none"]

IdleS == [st |-> "idle", i |-> 0]
DoneS == [st |-> "done", i |-> 0]

\* what the history keeps of the current call of _update_group: whether every
\* fetch so far returned the data its Request returned before, whether a fetch
\* was served from the cache, whether the call started restored (the startup
\* hook done, the slots equal to the fields of init_document), and how many
\* times it invoked store()
NoPassFacts == [same |-> TRUE, hit |-> FALSE, match |-> FALSE, stores |-> 0,
                restored |-> FALSE, last |-> EmptyMap]

Constructed(Scenarios) ==
    /\ \E sc \in Scenarios :
          /\ instances = sc.instances
          /\ upstream = sc.upstream
          /\ es = sc.es
          /\ hashseed = sc.hashseed
    /\ storing = [g \in Groups |-> 0]
    /\ document = [g \in Groups |-> Unbuilt]
    /\ dated_index = [g \in Groups |-> [name |-> NoIndex, pending |-> FALSE]]
    /\ now = PastTime + 1
    /\ pcMain = [st |-> "from_request", n |-> 1, s |-> 1]
    /\ clsdict = InitClsdict
    /\ key_to_attr_map = [g \in Groups |-> EmptyMap]
    /\ slots = [g \in Groups |-> EmptyMap]
    /\ last_response = [r \in Reqs |-> None]
    /\ dynamic_groups = << >>
    /\ document_count = EmptyMap
    /\ init_document = [g \in Groups |-> None]
    /\ pcU = IdleU
    /\ items = << >>
    /\ changed = FALSE
    /\ passes = 0
    /\ pcS = [g \in Groups |-> IdleS]
    /\ rdoc = [g \in Groups |-> None]
    /\ log = {}
    /\ hist = [lastnet |-> [r \in Reqs |-> NoTimestamp],
               build   |-> [r \in Reqs |-> "none"],
               visits  |-> [g \in Groups |-> 0],
               stores  |-> [g \in Groups |-> 0],
               ensured |-> [g \in Groups |-> {}],
               failed  |-> [r \in Reqs |-> FALSE],
               unsaved |-> [g \in Groups |-> {}],
               cur     |-> NoPassFacts]

InitWith(Scenarios) == Constructed(Scenarios) /\ call = NoCall

Init == InitWith(OneInstance)

InitTwo == InitWith(TwoInstances)

-----------------------------------------------------------------------------
(* Archstats.__ainit__ and _add_dynamic_group (the bootstrap task).        *)

\* from_request: `response = await request.make()` for Request s of the
\* group of the n-th instance, and the loop over its items; after the last
\* Request the class is built, instantiated and registered
\* (_add_dynamic_group, up to its await)
FromRequest ==
    /\ pcMain.st = "from_request"
    /\ LET g == instances[pcMain.n]
           s == pcMain.s
           r == <<g, s>>
       IN \E out \in NetOutcomes(r) :
          LET m == make(last_response[r], now, out)
              b == BuildItems(clsdict, key_to_attr_map[g], m.data)
          IN /\ hist' = [hist EXCEPT
                    !.build[r] = IF out.status = 200 /\ IsJson(out.text)
                                 THEN "ok" ELSE "failed",
                    !.lastnet[r] = IF m.net /\ m.exc = "none" THEN now ELSE @]
             /\ IF m.exc # "none"
                THEN \* the exception leaves from_request, _add_dynamic_group
                     \* and __ainit__: the process ends before the server runs
                     /\ pcMain' = [pcMain EXCEPT !.st = "failed"]
                     /\ UNCHANGED <<clsdict, key_to_attr_map, slots, last_response,
                                    dynamic_groups, document_count, log>>
                ELSE /\ last_response' = [last_response EXCEPT ![r] = m.resp]
                     /\ key_to_attr_map' = [key_to_attr_map EXCEPT ![g] = b.map]
                     /\ log' = IF b.shadowed
                               THEN log \cup {LogRec("Attribute shadowed", g)}
                               ELSE log
                     /\ IF s < NumSources
                        THEN /\ pcMain' = [pcMain EXCEPT !.s = s + 1]
                             /\ clsdict' = b.cd
                             /\ UNCHANGED <<slots, dynamic_groups, document_count>>
                        ELSE /\ pcMain' = [pcMain EXCEPT !.st = "ainit"]
                             /\ clsdict' = InitClsdict
                             /\ slots' = [slots EXCEPT ![g] = Instantiate(b.cd, now)]
                             /\ dynamic_groups' = Append(dynamic_groups, g)
                             /\ document_count' = Put(document_count, g, 0)
    /\ UNCHANGED <<upstream, instances, hashseed, call, storing, dated_index, document, now, init_document, es, pcU, items,
                   changed, passes, pcS, rdoc>>

\* DatabaseBackedJSONRequestGroup.__ainit__: the query for the last document,
\* which takes d seconds; then the next instance, or the server starts
\* (caproto.server.run) and with it the startup hooks
GroupAInit ==
    /\ pcMain.st = "ainit"
    /\ LET g == instances[pcMain.n]
       IN /\ \E d \in Latency :
               /\ now' = now + d
               /\ \/ \E doc \in get_last_document(es[g]) :
                        /\ init_document' = [init_document EXCEPT ![g] = doc]
                        /\ log' = log
                  \/ /\ init_document' = [init_document EXCEPT ![g] = None]
                     /\ log' = log \cup {LogRec("Unable to get last database document", g)}
          /\ IF pcMain.n < Len(instances)
             THEN /\ pcMain' = [st |-> "from_request", n |-> pcMain.n + 1, s |-> 1]
                  /\ pcS' = pcS
             ELSE /\ pcMain' = [pcMain EXCEPT !.st = "running"]
                  /\ pcS' = [x \in Groups |->
                                IF \E j \in 1..Len(dynamic_groups) : dynamic_groups[j] = x
                                THEN [st |-> "start", i |-> 0] ELSE IdleS]
    /\ UNCHANGED <<upstream, instances, hashseed, call, storing, dated_index, document, clsdict, key_to_attr_map, slots,
                   last_response, dynamic_groups, document_count, es, pcU, items,
                   changed, passes, rdoc, hist>>

-----------------------------------------------------------------------------
(* Archstats.updater and _update_group (the reconciler task).              *)

Running == pcMain.st = "running"

\* the group the updater is working on
CurGroup == dynamic_groups[pcU.k]

\* whether the slots of g hold exactly the fields of its init_document
MatchesInitDocument(g) ==
    IF init_document[g] = None THEN FALSE
    ELSE /\ DOMAIN init_document[g].fields = DOMAIN slots[g]
         /\ \A a \in DOMAIN slots[g] : slots[g][a].value = init_document[g].fields[a]

\* the history of a call of _update_group on the k-th group starts
EnterGroup(k) ==
    LET g == dynamic_groups[k]
    IN  [hist EXCEPT !.visits[g] = @ + 1,
                     !.cur = [NoPassFacts EXCEPT
                                 !.match = MatchesInitDocument(g) /\ pcS[g].st = "done",
                                 !.restored = pcS[g].st = "done"]]

\* where _update_group goes once the items of Request s are done
AfterRequest(s) ==
    IF s < NumSources
    THEN [pcU EXCEPT !.st = "fetch", !.s = s + 1, !.i = 0]
    ELSE [pcU EXCEPT !.st = "decide", !.s = 0, !.i = 0]

\* where the updater goes when `exc` is raised inside its try block
Raised(exc) ==
    IF UpdaterCatches(exc)
    THEN [IdleU EXCEPT !.st = "backoff", !.exc = exc]
    ELSE [IdleU EXCEPT !.st = "crashed", !.exc = exc]

\* every startup hook has returned
HooksDone == \A g \in Groups : pcS[g].st \in {"idle", "done"}

\* the top of `while True`: a pass starts with the first group
StartPass ==
    /\ Running
    /\ pcU.st = "idle"
    /\ passes < MaxPasses
    /\ passes < MaxHookPasses \/ HooksDone
    /\ passes' = passes + 1
    /\ pcU' = [IdleU EXCEPT !.st = "fetch", !.k = 1, !.s = 1]
    /\ changed' = FALSE
    /\ hist' = EnterGroup(1)
    /\ UNCHANGED <<upstream, instances, hashseed, call, storing, dated_index, document, now, pcMain, clsdict, key_to_attr_map,
                   slots, last_response, dynamic_groups, document_count,
                   init_document, es, items, pcS, rdoc, log>>

\* the class attribute `member` of group g (its `requests` list or its
\* key_to_attr_map) is a pvproperty: from_request stored the pvproperty of an
\* item with that attribute name in its place
Shadowed(g, member) == member \in DOMAIN slots[g]

\* `for request in group.requests` and `await request.make()` in
\* _update_group; a pvproperty in the place of `requests` cannot be iterated
Fetch ==
    /\ pcU.st = "fetch"
    /\ LET g == CurGroup
           r == <<g, pcU.s>>
           old == last_response[r]
       IN \E out \in NetOutcomes(r) :
          LET m == IF Shadowed(g, "requests")
                   THEN [exc |-> "TypeError", data |-> << >>, resp |-> old, net |-> FALSE]
                   ELSE make(old, now, out)
          IN IF m.exc # "none"
             THEN /\ pcU' = Raised(m.exc)
                  /\ log' = log \cup {LogRec("Update failed!", g)}
                  /\ hist' = [hist EXCEPT !.cur.same = FALSE,
                                          !.failed[r] = @ \/ m.exc # "TypeError"]
                  /\ items' = << >>
                  /\ last_response' = [last_response EXCEPT ![r] = m.resp]
             ELSE /\ last_response' = [last_response EXCEPT ![r] = m.resp]
                  /\ items' = m.data
                  /\ pcU' = IF m.data = << >> THEN AfterRequest(pcU.s)
                            ELSE [pcU EXCEPT !.st = "item", !.i = 1]
                  /\ hist' = [hist EXCEPT
                         !.cur.same = @ /\ (~m.net \/ (old # None /\ old.raw = out.text)),
                         !.cur.hit = @ \/ ~m.net,
                         !.failed[r] = FALSE,
                         !.lastnet[r] = IF m.net THEN now ELSE @]
                  /\ log' = log
    /\ UNCHANGED <<upstream, instances, hashseed, call, storing, dated_index, document, now, pcMain, clsdict, key_to_attr_map,
                   slots, dynamic_groups, document_count, init_document, es,
                   changed, passes, pcS, rdoc>>

\* one iteration of `for item in ...`: the lookup, the comparison and
\* `await prop.write(value=item['value'])`
UpdateItem ==
    /\ pcU.st = "item"
    /\ LET g == CurGroup
           item == items[pcU.i]
       IN IF Shadowed(g, "key_to_attr_map")
          THEN \* group.key_to_attr_map[...] on a pvproperty: not a KeyError
               /\ pcU' = Raised("TypeError")
               /\ log' = log \cup {LogRec("Update failed!", g)}
               /\ items' = << >>
               /\ UNCHANGED <<slots, changed, hist>>
          ELSE
          /\ IF item.name \notin DOMAIN key_to_attr_map[g]
             THEN /\ log' = log \cup {LogRec("Saw new entry", g)}
                  /\ slots' = [slots EXCEPT ![g] = UnknownKey(@, item, now)]
                  /\ UNCHANGED <<changed, hist>>
             ELSE LET attr == key_to_attr_map[g][item.name]
                      prop == slots[g][attr]
                  IN IF PyNe(prop.value, item.value)
                     THEN \E w \in WriteOutcomes(prop, item.value, now) :
                          /\ slots' = [slots EXCEPT ![g][attr] = w.prop]
                          /\ changed' = (changed \/ w.ok)
                          /\ log' = IF w.ok THEN log
                                    ELSE log \cup {LogRec("Failed to update", g)}
                          /\ hist' = [hist EXCEPT
                                        !.unsaved[g] = IF w.ok THEN @ \cup {attr} ELSE @,
                                        !.cur.last = Processed(@, attr, item.value, w.ok)]
                     ELSE /\ hist' = [hist EXCEPT
                                        !.cur.last = Processed(@, attr, item.value, TRUE)]
                          /\ UNCHANGED <<slots, changed, log>>
          /\ IF pcU.i < Len(items)
             THEN /\ pcU' = [pcU EXCEPT !.i = @ + 1]
                  /\ items' = items
             ELSE /\ pcU' = AfterRequest(pcU.s)
                  /\ items' = << >>
    /\ UNCHANGED <<upstream, instances, hashseed, call, storing, dated_index, document, now, pcMain, clsdict, key_to_attr_map,
                   last_response, dynamic_groups, document_count, init_document,
                   es, passes, pcS, rdoc>>

\* the end of _update_group: store or not.  store() runs up to its first
\* await: get_dated_index_name, which remembers a new index name before it
\* awaits indices.create
Decide ==
    /\ pcU.st = "decide"
    /\ LET g == CurGroup
       IN IF NeedStore(changed, document_count[g], init_document[g])
          THEN /\ pcU' = [pcU EXCEPT !.st = IF StoreAwaited THEN "store"
                                             ELSE "group_sleep"]
               /\ storing' = [storing EXCEPT ![g] = @ + 1]
               /\ dated_index' = [dated_index EXCEPT ![g] = get_dated_index_name(@, now)]
               /\ document' = IF dated_index'[g].pending THEN document
                               ELSE [document EXCEPT ![g] = create_document(slots[g])]
               /\ hist' = [hist EXCEPT !.stores[g] = @ + 1, !.cur.stores = @ + 1]
          ELSE /\ pcU' = [pcU EXCEPT !.st = "group_sleep"]
               /\ UNCHANGED <<storing, dated_index, document, hist>>
    /\ UNCHANGED <<upstream, instances, hashseed, call, now, pcMain, clsdict, key_to_attr_map,
                   slots, last_response, dynamic_groups, document_count,
                   init_document, es, items, changed, passes, pcS, rdoc, log>>

\* ElasticHandler.store of group g ends: `await self.es.create(...)` has
\* created the document store() had built in the index, or the client raised.  The updater, which awaits
\* it, goes on: `self._document_count[group] += 1`, or the exception
Store(g) ==
    /\ storing[g] > 0
    /\ ~dated_index[g].pending
    /\ storing' = [storing EXCEPT ![g] = @ - 1]
    /\ LET awaited == pcU.st = "store" /\ CurGroup = g
       IN \/ /\ es' = [es EXCEPT ![g] = Append(@, Indexed(document[g]))]
             /\ slots' = [slots EXCEPT ![g] = StoreLeavesSlots(@)]
             /\ document_count' = [document_count EXCEPT ![g] = @ + 1]
             /\ pcU' = IF awaited THEN [pcU EXCEPT !.st = "group_sleep"] ELSE pcU
             /\ log' = log
             /\ hist' = [hist EXCEPT !.unsaved[g] = {}]
          \/ /\ pcU' = IF awaited THEN Raised("TransportError") ELSE pcU
             /\ log' = IF awaited THEN log \cup {LogRec("Update failed!", g)} ELSE log
             /\ UNCHANGED <<es, slots, document_count, hist>>
    /\ document' = [document EXCEPT ![g] = Unbuilt]
    /\ UNCHANGED <<upstream, instances, hashseed, call, dated_index, now, pcMain, clsdict,
                   key_to_attr_map, last_response, dynamic_groups, init_document,
                   items, changed, passes, pcS, rdoc>>

\* `await self.es.indices.create(index=index, ignore=400)` of a store() of
\* group g ends: the index exists and store() goes on, or the client raised
\* and the exception leaves store().  When it returns store() builds its
\* document: `document = self.create_document()`
EnsureIndex(g) ==
    /\ storing[g] > 0
    /\ dated_index[g].pending
    /\ dated_index' = [dated_index EXCEPT ![g].pending = FALSE]
    /\ LET awaited == pcU.st = "store" /\ CurGroup = g
       IN \/ /\ hist' = [hist EXCEPT !.ensured[g] = @ \cup {dated_index[g].name}]
             /\ document' = [document EXCEPT ![g] = create_document(slots[g])]
             /\ UNCHANGED <<storing, pcU, log>>
          \/ /\ storing' = [storing EXCEPT ![g] = @ - 1]
             /\ pcU' = IF awaited THEN Raised("TransportError") ELSE pcU
             /\ log' = IF awaited THEN log \cup {LogRec("Update failed!", g)} ELSE log
             /\ UNCHANGED <<hist, document>>
    /\ UNCHANGED <<upstream, instances, hashseed, call, now, pcMain, clsdict,
                   key_to_attr_map, slots, last_response, dynamic_groups,
                   document_count, init_document, es, items, changed, passes,
                   pcS, rdoc>>

\* store() of group g builds its document in this step
Builds(g) == document'[g] # document[g] /\ document'[g] # Unbuilt

\* `await async_lib.library.sleep(0.1)`, then the next group or the end of
\* the for loop
GroupSleep ==
    /\ pcU.st = "group_sleep"
    /\ IF pcU.k < Len(dynamic_groups)
       THEN /\ pcU' = [IdleU EXCEPT !.st = "fetch", !.k = pcU.k + 1, !.s = 1]
            /\ changed' = FALSE
            /\ hist' = EnterGroup(pcU.k + 1)
       ELSE /\ pcU' = [IdleU EXCEPT !.st = "rate_sleep"]
            /\ UNCHANGED <<changed, hist>>
    /\ UNCHANGED <<upstream, instances, hashseed, call, storing, dated_index, document, now, pcMain, clsdict, key_to_attr_map,
                   slots, last_response, dynamic_groups, document_count,
                   init_document, es, items, passes, pcS, rdoc, log>>

\* the except block: `await async_lib.library.sleep(10.0)`
Backoff ==
    /\ pcU.st = "backoff"
    /\ now' = now + backoff_sleep
    /\ pcU' = [IdleU EXCEPT !.st = "rate_sleep"]
    /\ UNCHANGED <<upstream, instances, hashseed, call, storing, dated_index, document, pcMain, clsdict, key_to_attr_map, slots,
                   last_response, dynamic_groups, document_count, init_document,
                   es, items, changed, passes, pcS, rdoc, log, hist>>

\* `await async_lib.library.sleep(self.update_rate)`
RateSleep ==
    /\ pcU.st = "rate_sleep"
    /\ now' = now + update_rate
    /\ pcU' = IdleU
    /\ UNCHANGED <<upstream, instances, hashseed, call, storing, dated_index, document, pcMain, clsdict, key_to_attr_map, slots,
                   last_response, dynamic_groups, document_count, init_document,
                   es, items, changed, passes, pcS, rdoc, log, hist>>

Updater == StartPass \/ Fetch \/ UpdateItem \/ Decide
              \/ (\E g \in Groups : EnsureIndex(g)) \/ (\E g \in Groups : Store(g))
              \/ GroupSleep \/ Backoff \/ RateSleep

-----------------------------------------------------------------------------
(* DatabaseBackedHelper.db_helper startup hook: ElasticHandler.startup and *)
(* restore_from_document, one task per group.                              *)

\* the log once restore_from_document has returned (`done`):
\* 'Restored state from last document'
LogRestored(lg, g, done) ==
    IF done THEN lg \cup {LogRec("Restored state from last document", g)} ELSE lg

\* `doc = await self.get_last_document()`, and restore_from_document up to
\* its first await
StartupSearch(g) ==
    /\ pcS[g].st = "start"
    /\ \/ /\ pcS' = [pcS EXCEPT ![g] = DoneS]
          /\ log' = log \cup {LogRec("Failed to get the latest document", g)}
          /\ rdoc' = rdoc
       \/ \E doc \in get_last_document(es[g]) :
             IF doc = None
             THEN /\ pcS' = [pcS EXCEPT ![g] = DoneS]
                  /\ log' = log \cup {LogRec("No document found to restore from.", g)}
                  /\ rdoc' = rdoc
             ELSE IF doc.ts = NoTimestamp
             THEN \* doc[timestamp_key] raises KeyError
                  /\ pcS' = [pcS EXCEPT ![g] = DoneS]
                  /\ log' = log \cup {LogRec("Failed to restore the latest document", g)}
                  /\ rdoc' = rdoc
             ELSE /\ pcS' = [pcS EXCEPT ![g] =
                        IF FieldSeq(doc) = << >> THEN DoneS
                        ELSE [st |-> "restore", i |-> 1]]
                  /\ rdoc' = [rdoc EXCEPT ![g] = doc]
                  /\ log' = LogRestored(log, g, FieldSeq(doc) = << >>)
    /\ UNCHANGED <<upstream, instances, hashseed, call, storing, dated_index, document, now, pcMain, clsdict, key_to_attr_map,
                   slots, last_response, dynamic_groups, document_count,
                   init_document, es, pcU, items, changed, passes, hist>>

\* the hook's position after field i of n: the next field, or the end
NextField(p, n) == IF p.i < n THEN [p EXCEPT !.i = @ + 1] ELSE DoneS

MissingFieldAborts(p, n) == DoneS

\* the hook's position after a field that has no pvproperty: `continue`
AfterMissingField(p, n) == NextField(p, n)

\* one iteration of restore_from_document's loop:
\* `await prop.write(value=value, timestamp=timestamp)`
RestoreField(g) ==
    /\ pcS[g].st = "restore"
    /\ LET doc == rdoc[g]
           fs == FieldSeq(doc)
           attr == fs[pcS[g].i]
       IN /\ IF attr \notin DOMAIN slots[g]
             THEN /\ log' = LogRestored(log \cup {LogRec("Attribute no longer valid", g)},
                                        g, AfterMissingField(pcS[g], Len(fs)) = DoneS)
                  /\ slots' = slots
                  /\ pcS' = [pcS EXCEPT ![g] = AfterMissingField(@, Len(fs))]
             ELSE /\ \E w \in WriteOutcomes(slots[g][attr], doc.fields[attr], doc.ts) :
                        /\ slots' = [slots EXCEPT ![g][attr] = w.prop]
                        /\ log' = LogRestored(
                                      IF w.ok THEN log
                                      ELSE log \cup {LogRec("Failed to restore field", g)},
                                      g, NextField(pcS[g], Len(fs)) = DoneS)
                  /\ pcS' = [pcS EXCEPT ![g] = NextField(@, Len(fs))]
          /\ rdoc' = IF pcS'[g] = DoneS THEN [rdoc EXCEPT ![g] = None] ELSE rdoc
    /\ UNCHANGED <<upstream, instances, hashseed, call, storing, dated_index, document, now, pcMain, clsdict, key_to_attr_map,
                   last_response, dynamic_groups, document_count, init_document,
                   es, pcU, items, changed, passes, hist>>

Startup == \E g \in Groups : StartupSearch(g) \/ RestoreField(g)

-----------------------------------------------------------------------------

Next == FromRequest \/ GroupAInit \/ Updater \/ Startup

Spec == Init /\ [][Next]_vars

\* one appliance instance whose upstream is fixed to one pair of payload sets
\* (every prior-document case is kept); every fetch may still fail
FixedPayloads ==
    {sc \in OneInstance : /\ sc.upstream[<<1, 1>>] = {"count=1", "count=2"}
                          /\ sc.upstream[<<1, 2>>] = {"rate=NaN"}}

InitFixed == InitWith(FixedPayloads)

\* asyncio runs every task that is ready: neither the updater nor a startup
\* hook is left waiting
FairSpecFixed ==
    InitFixed /\ [][Next]_vars /\ WF_vars(Updater) /\ WF_vars(Startup)

\* the same program with an appliance whose answers drift
InitDrift == InitWith(DriftInstance)

SpecDrift == InitDrift /\ [][Next]_vars

\* the same program with two appliance instances
SpecTwo == InitTwo /\ [][Next]_vars

-----------------------------------------------------------------------------
(* The value coercer alone: a call of _value_to_pvproperty_kwargs on a key *)
(* and a raw string, in the two steps of its first statement.              *)

\* the longest generated raw string
MaxLen == 4

Alphabet == {"0", "1", ",", "-", "."}

RECURSIVE StringsOf(_)
\* the strings over Alphabet of length n
StringsOf(n) ==
    IF n = 0 THEN {<< >>}
    ELSE {Append(s, c) : s \in StringsOf(n - 1), c \in Alphabet}

Raw160732 == <<"1", "6", "0", "7", "3", "2">>
Raw160c732 == <<"1", "6", "0", ",", "7", "3", "2">>

RawStrings ==
    UNION {StringsOf(n) : n \in 0..MaxLen}
        \cup {WordTrue, WordFalse, WordNone, WordNaN, WordOk, Raw160732, Raw160c732}

\* one key outside FLOAT_KEYS and one inside
CoerceKeys == {"Pv Count", "data_rate_in_gb_per_year"}

NoVal == Val("unset", 0, 0, << >>)

InitCoerce ==
    /\ Constructed(FixedPayloads)
    /\ \E key \in CoerceKeys, raw \in RawStrings :
          call = [st |-> "called", key |-> key, raw |-> raw, value |-> NoVal,
                  result |-> [value |-> NoVal, record |-> "unset"]]

\* archiver_literal_eval(value)
Eval ==
    /\ call.st = "called"
    /\ call' = [call EXCEPT !.st = "evaluated",
                            !.value = archiver_literal_eval_chars(call.raw)]
    /\ UNCHANGED <<upstream, instances, hashseed, storing, dated_index, document, now, pcMain, clsdict,
                   key_to_attr_map, slots, last_response, dynamic_groups,
                   document_count, init_document, es, pcU, items, changed,
                   passes, pcS, rdoc, log, hist>>

\* _maybe_make_float and the record kind; the dictionary is returned or the
\* exception leaves the function
Kwargs ==
    /\ call.st = "evaluated"
    /\ call' = [call EXCEPT !.st = "returned",
                            !.result = KwargsOf(call.key, call.value)]
    /\ UNCHANGED <<upstream, instances, hashseed, storing, dated_index, document, now, pcMain, clsdict,
                   key_to_attr_map, slots, last_response, dynamic_groups,
                   document_count, init_document, es, pcU, items, changed,
                   passes, pcS, rdoc, log, hist>>

NextCoerce == Eval \/ Kwargs

SpecCoerce == InitCoerce /\ [][NextCoerce]_vars

-----------------------------------------------------------------------------
(* The claims.                                                             *)

Registered(g) == \E j \in 1..Len(dynamic_groups) : dynamic_groups[j] = g

\* the updater is inside _update_group
InGroup == pcU.k > 0

\* _update_group has returned normally for the current group
GroupReturned == pcU.st = "group_sleep"

\* C1: restore-then-no-change idempotence.  A call of _update_group that
\* starts restored (the startup hook done, init_document present, the slots
\* equal to its fields) and in which every Source returns the same data as
\* before does not invoke store().
C1_NoDuplicateDocument ==
    ~(pcU.st = "store" /\ hist.cur.match /\ hist.cur.same)

\* C2: a group without init_document stores exactly once in its first call of
\* _update_group, and, once that document is stored, not at all in a later
\* call in which every Source returns the same data as before.
C2_FirstPassStoresOnce ==
    (GroupReturned /\ init_document[CurGroup] = None) =>
        /\ hist.visits[CurGroup] = 1 => hist.cur.stores = 1
        /\ (hist.visits[CurGroup] > 1 /\ hist.cur.same
                /\ document_count[CurGroup] > hist.cur.stores)
              => hist.cur.stores = 0

\* the updater steps over an item whose name is not in key_to_attr_map
UnknownItemStep ==
    /\ pcU.st = "item"
    /\ items[pcU.i].name \notin DOMAIN key_to_attr_map[CurGroup]
    /\ pcU' # pcU

\* C3: schema freeze.  Once a group is registered its set of slots and its
\* key_to_attr_map never change; an item with an unknown name is logged and
\* skipped, creates no slot, and the loop goes on with the next item.
C3_SchemaFreeze ==
    [][ /\ \A g \in Groups : Registered(g) =>
              /\ DOMAIN slots'[g] = DOMAIN slots[g]
              /\ key_to_attr_map'[g] = key_to_attr_map[g]
        /\ UnknownItemStep =>
              /\ LogRec("Saw new entry", CurGroup) \in log'
              /\ slots' = slots
              /\ pcU' = IF pcU.i < Len(items) THEN [pcU EXCEPT !.i = @ + 1]
                        ELSE AfterRequest(pcU.s) ]_vars

\* an unknown item was logged and the loop is at the item after it
C3_Witness ==
    /\ pcU.st = "item" /\ pcU.i = 2
    /\ items[1].name \notin DOMAIN key_to_attr_map[CurGroup]
    /\ LogRec("Saw new entry", CurGroup) \in log
    /\ "new_metric" \notin DOMAIN slots[CurGroup]

\* the updater's `await request.make()` raises
FetchRaises == pcU.st = "fetch" /\ pcU'.st \in {"backoff", "crashed"}

C5_UpdaterNeverDies ==
    /\ [](pcU.st # "crashed")
    /\ \A n \in 1..(MaxPasses - 1) :
          (pcU.st = "backoff" /\ passes = n) ~> (passes = n + 1)

\* a pass has started after a pass that failed
C5_Witness ==
    /\ passes = 2 /\ pcU.st = "fetch" /\ pcU.k = 1 /\ pcU.s = 1
    /\ \E g \in Groups : LogRec("Update failed!", g) \in log

\* C6: no pass reads or writes the slots of a group before the restore of
\* that group has finished.
C6_RestoreBeforeReconciliation ==
    (InGroup /\ pcU.st \in {"item", "decide", "store"}) => pcS[CurGroup].st = "done"

MakeStep(r) == pcU.st = "fetch" /\ <<CurGroup, pcU.s>> = r /\ pcU' # pcU

\* C8: a make() on a Request whose cached response is younger than
\* cache_period returns the cached data without a network call; otherwise the
\* network call is made and, when it succeeds, (now, raw, data) is cached.
\* Two successful network calls of one Request are at least cache_period apart.
C8_RequestCache ==
    [][ \A r \in Reqs : MakeStep(r) =>
          LET resp == last_response[r]
          IN IF resp # None /\ now - resp.timestamp < cache_period
             THEN /\ items' = resp.data
                  /\ last_response'[r] = resp
                  /\ hist'.lastnet[r] = hist.lastnet[r]
                  /\ ~FetchRaises
             ELSE ~FetchRaises =>
                  /\ last_response'[r].timestamp = now
                  /\ last_response'[r].data = items'
                  /\ hist'.lastnet[r] = now
                  /\ hist.lastnet[r] # NoTimestamp =>
                        now - hist.lastnet[r] >= cache_period ]_vars

\* a fetch of the pass was served from the cache
C8_Witness ==
    /\ pcU.st = "item" /\ hist.cur.hit
    /\ items = last_response[<<CurGroup, pcU.s>>].data
    /\ hist.lastnet[<<CurGroup, pcU.s>>] = last_response[<<CurGroup, pcU.s>>].timestamp

\* the last-document query of __ainit__ failed, or the document it returned
\* cannot be restored from
RestoreFailed(g) ==
    \/ LogRec("Unable to get last database document", g) \in log
    \/ init_document[g] # None /\ init_document[g].ts = NoTimestamp

\* C9: after a restore failure (the query fails, or the document is
\* malformed) the group behaves as one without init_document: its first call
\* of _update_group invokes store().
C9_RestoreFailureIsNoPriorDocument ==
    (GroupReturned /\ hist.visits[CurGroup] = 1 /\ RestoreFailed(CurGroup))
        => hist.cur.stores = 1

NonFinite(x) == x.kind = "float" /\ x.v \in {"nan", "inf", "-inf"}

\* C10 as stated: no stored document has a NaN or infinite field.
C10_NoNonFiniteField ==
    \A g \in Groups : \A i \in 1..Len(es[g]) :
        \A a \in DOMAIN es[g][i].fields : ~NonFinite(es[g][i].fields[a])

\* C10 as amended: the document store() appends holds, for every slot, the
\* sentinel 0.0 when the slot holds NaN and the slot's value otherwise
\* (infinities included); no stored document has a NaN field.
C10_NaNReplaced ==
    [][ \A g \in Groups :
          /\ Builds(g) /\ DOMAIN slots[g] # {} =>
                LET d == document'[g]
                IN /\ DOMAIN d.fields = DOMAIN slots[g]
                   /\ \A a \in DOMAIN slots[g] :
                         /\ d.fields[a] = IF slots[g][a].value = NaN THEN TV("float", "0.0")
                                          ELSE slots[g][a].value
                         /\ d.fields[a] # NaN
          /\ Len(es'[g]) = Len(es[g]) + 1 /\ document[g] # None =>
                es'[g][Len(es'[g])] = document[g] ]_vars

\* a document was stored while a slot held NaN: it holds 0.0 there
C10_Witness ==
    \E g \in Groups :
        /\ hist.stores[g] > 0 /\ Len(es[g]) > 0
        /\ es[g][Len(es[g])].ts > PastTime
        /\ "event_rate" \in DOMAIN slots[g] /\ slots[g]["event_rate"].value = NaN
        /\ es[g][Len(es[g])].fields["event_rate"] = TV("float", "0.0")

\* store() of group g returns: its document is appended to the index
StoreReturns(g) == storing[g] > 0 /\ Len(es'[g]) = Len(es[g]) + 1

\* store() of group g ends, by returning or by raising
StoreEnds(g) == storing'[g] < storing[g]

\* the document store() has just appended for group g
StoredDocument(g) == es'[g][Len(es'[g])]

\* C11: store() modifies no Slot.  When store() ends every Slot of every
\* group holds what it held before; where a Slot holds NaN the document
\* store() builds holds the sentinel 0.0 and the Slot still holds NaN.
C11_StoreModifiesNoSlot ==
    [][ \A g \in Groups :
          /\ StoreEnds(g) => slots' = slots
          /\ Builds(g) /\ DOMAIN slots[g] # {} =>
                \A a \in DOMAIN slots[g] :
                    slots[g][a].value = NaN =>
                        /\ document'[g].fields[a] = NAN_VALUE
                        /\ slots'[g][a].value = NaN ]_vars

\* store() has returned for a group with a NaN Slot: the document holds 0.0,
\* the Slot NaN
C11_Witness ==
    /\ pcU.st = "group_sleep" /\ hist.cur.stores = 1
    /\ \E a \in DOMAIN slots[CurGroup] :
          /\ slots[CurGroup][a].value = NaN
          /\ es[CurGroup][Len(es[CurGroup])].ts > PastTime
          /\ es[CurGroup][Len(es[CurGroup])].fields[a] = NAN_VALUE

\* C12: at most one store() per group is in flight: none begins before the
\* one before it has returned or raised.
C12_OneStoreInFlight == \A g \in Groups : storing[g] <= 1

\* the second store() of a group is in flight, alone
C12_Witness ==
    \E g \in Groups : storing[g] = 1 /\ hist.stores[g] = 2 /\ pcS[g].st # "idle"

\* C19: the timestamp of the document store() builds is the maximum of the
\* timestamps of the Slots of the group.
C19_DocumentTimestampIsLatest ==
    [][ \A g \in Groups :
          /\ Builds(g) /\ DOMAIN slots[g] # {} =>
                /\ \A a \in DOMAIN slots[g] : slots[g][a].timestamp <= document'[g].ts
                /\ \E a \in DOMAIN slots[g] : slots[g][a].timestamp = document'[g].ts
          /\ StoreReturns(g) /\ document[g] # None => StoredDocument(g).ts = document[g].ts ]_vars

\* a document was stored for a group whose Slots were last updated at
\* different times: it carries the later time
C19_Witness ==
    /\ pcU.st = "group_sleep" /\ hist.cur.stores = 1
    /\ \E a, b \in DOMAIN slots[CurGroup] :
          /\ slots[CurGroup][a].timestamp < slots[CurGroup][b].timestamp
          /\ es[CurGroup][Len(es[CurGroup])].ts = slots[CurGroup][b].timestamp

\* the items from_request has iterated for group g, in order: the responses
\* of its Requests as cached by the build
BuildData(g) == last_response[<<g, 1>>].data \o last_response[<<g, 2>>].data

\* C14: identifier collision is last-write-wins.  When the build of a group
\* ends there is exactly one Slot per attribute name its items gave, each
\* holds the value of the last item with that attribute name, and when two
\* items gave the same attribute name 'Attribute shadowed' is logged.
C14_CollisionLastWriteWins ==
    pcMain.st = "ainit" =>
        LET g == instances[pcMain.n]
            data == BuildData(g)
            attr(i) == create_pvproperty_attr(data[i].name)
        IN /\ DOMAIN slots[g] = {attr(i) : i \in 1..Len(data)}
           /\ \A i \in 1..Len(data) :
                 (\A j \in (i + 1)..Len(data) : attr(j) # attr(i))
                     => slots[g][attr(i)].value = data[i].value
           /\ (\E i, j \in 1..Len(data) : i < j /\ attr(i) = attr(j))
                 => LogRec("Attribute shadowed", g) \in log

\* a group was built from 'Pv Count' = 1 then 'PV count' = 2: one Slot, 2
C14_Witness ==
    /\ pcMain.st = "ainit"
    /\ Len(last_response[<<1, 1>>].data) = 2
    /\ last_response[<<1, 1>>].data[1].name = last_response[<<1, 1>>].data[2].name
    /\ slots[1]["pv_count"].value = TV("int", "2")
    /\ LogRec("Attribute shadowed", 1) \in log

RestoreStep(g) == pcS[g].st = "restore" /\ pcS'[g] # pcS[g]

\* C15: on restore a field of the document that has no Slot is logged and
\* skipped: no Slot is created, nothing is raised (the loop goes on with the
\* next field, up to the last), and every field that has a Slot is written
\* into it (or the refusal of the write is logged), wherever the missing
\* field stands in the document.
C15_RestoreSkipsMissingSlot ==
    [][ \A g \in Groups : RestoreStep(g) =>
          LET doc == rdoc[g]
              fs == FieldSeq(doc)
              attr == fs[pcS[g].i]
          IN /\ pcS'[g] = IF pcS[g].i < Len(fs)
                          THEN [st |-> "restore", i |-> pcS[g].i + 1] ELSE DoneS
             /\ DOMAIN slots'[g] = DOMAIN slots[g]
             /\ attr \notin DOMAIN slots[g] =>
                   /\ slots' = slots
                   /\ LogRec("Attribute no longer valid", g) \in log'
             /\ attr \in DOMAIN slots[g] =>
                   \/ /\ slots'[g][attr].value = doc.fields[attr]
                      /\ slots'[g][attr].timestamp = doc.ts
                   \/ LogRec("Failed to restore field", g) \in log' ]_vars

\* the restore has ended: the missing field pv_count, the first of the
\* document, was logged, and event_rate after it was restored
C15_Witness ==
    /\ pcS[1] = DoneS /\ es[1] # << >> /\ es[1][1] = DocB
    /\ LogRec("Attribute no longer valid", 1) \in log
    /\ "pv_count" \notin DOMAIN slots[1]
    /\ "event_rate" \in DOMAIN slots[1]
    /\ slots[1]["event_rate"].timestamp = PastTime
    /\ slots[1]["event_rate"].value = DocB.fields["event_rate"]

\* C16: the type tag (the record kind) of a Slot is the one of the value it
\* was created with and never changes afterwards, whatever a fetch or a
\* restore writes into the Slot.
C16_TypeTagFixed ==
    [][ \A g \in Groups :
          /\ (pcMain.st = "ainit" /\ g = instances[pcMain.n]) =>
                \A a \in DOMAIN slots[g] : slots[g][a].record = RecordOf(slots[g][a].value)
          /\ Registered(g) =>
                \A a \in DOMAIN slots[g] :
                    a \in DOMAIN slots'[g] /\ slots'[g][a].record = slots[g][a].record ]_vars

\* a Slot holds a value of another type than the one it was created with
C16_Witness ==
    \E a \in DOMAIN slots[1] :
        /\ slots[1][a].record # RecordOf(slots[1][a].value)
        /\ slots[1][a].record \in {"ai", "stringin"}

\* C17: the fallback attribute name of a key without a valid attribute name
\* depends on the key alone: the name this run gives '1st Metric' is the name
\* the run that wrote the last document stored its value under.
C17_FallbackNameStable ==
    \A g \in Groups :
        (/\ Registered(g)
         /\ "1stMetric" \in DOMAIN key_to_attr_map[g]
         /\ es[g] # << >> /\ es[g][1] = DocHashed)
            => key_to_attr_map[g]["1stMetric"] \in DOMAIN DocHashed.fields

-----------------------------------------------------------------------------
(* The detailed-metrics transformer on one item: load_and_filter, then     *)
(* _value_to_pvproperty_kwargs on what it yields.                          *)

\* the longest generated value of an ETL byte count
MaxEtlLen == 2

EtlAlphabet == {"0", "1", "-"}

RECURSIVE EtlStringsOf(_)
EtlStringsOf(n) ==
    IF n = 0 THEN {<< >>}
    ELSE {Append(s, c) : s \in EtlStringsOf(n - 1), c \in EtlAlphabet}

Raw2048 == <<"2", "0", "4", "8">>
Raw1p5 == <<"1", ".", "5">>

EtlValues ==
    UNION {EtlStringsOf(n) : n \in 0..MaxEtlLen}
        \cup {Raw2048, Raw1p5, WordNaN, WordOk, WordTrue, WordNone}

EtlNames ==
    {MetricName(EtlStem, u) : u \in {"KB", "MB", "GB"}}
        \cup {MetricName("Pv Count", "KB")}

NoItem == [dropped |-> FALSE, name |-> MetricName("", ""), value |-> << >>]

InitEtl ==
    /\ Constructed(FixedPayloads)
    /\ \E name \in EtlNames, raw \in EtlValues :
          call = [st |-> "called", name |-> name, raw |-> raw, item |-> NoItem,
                  result |-> [value |-> NoVal, record |-> "unset"]]

\* load_and_filter reaches the item
LoadAndFilter ==
    /\ call.st = "called"
    /\ LET item == load_and_filter(call.name, call.raw)
       IN  call' = [call EXCEPT !.st = IF item.dropped THEN "dropped" ELSE "yielded",
                                !.item = item]
    /\ UNCHANGED <<upstream, instances, hashseed, storing, dated_index, document, now, pcMain, clsdict,
                   key_to_attr_map, slots, last_response, dynamic_groups,
                   document_count, init_document, es, pcU, items, changed,
                   passes, pcS, rdoc, log, hist>>

\* _value_to_pvproperty_kwargs(key_to_pv(item['name']), item['name'], item['value'])
ItemKwargs ==
    /\ call.st = "yielded"
    /\ call' = [call EXCEPT !.st = "returned",
                            !.result = Coerce(call.item.name.stem, call.item.value)]
    /\ UNCHANGED <<upstream, instances, hashseed, storing, dated_index, document, now, pcMain, clsdict,
                   key_to_attr_map, slots, last_response, dynamic_groups,
                   document_count, init_document, es, pcU, items, changed,
                   passes, pcS, rdoc, log, hist>>

NextEtl == LoadAndFilter \/ ItemKwargs

SpecEtl == InitEtl /\ [][NextEtl]_vars

-----------------------------------------------------------------------------
Returned == call.st = "returned"

DigitsAndCommas(s) == \A i \in 1..Len(s) : s[i] \in Digits \cup {","}

RECURSIVE WithoutCommas(_)
\* the same string with the commas removed
WithoutCommas(s) ==
    IF s = << >> THEN << >>
    ELSE IF Head(s) = "," THEN WithoutCommas(Tail(s))
    ELSE << Head(s) >> \o WithoutCommas(Tail(s))

\* C18: the value coercer is total on raw strings and always yields one of
\* Bool, Int, Float or Text; a raw string the literal parser rejects becomes
\* Text of the original raw string unchanged, and no tuple or other sequence
\* is returned
C18_CoercerTotal ==
    Returned =>
        /\ call.result.value.kind \in {"bool", "int", "float", "str"}
        /\ call.result.record \in {"bi", "ai", "longin", "stringin"}
        /\ (call.value.kind = "str" => call.value.text = call.raw)

\* C20 as stated: for every raw string of digits and commas, coerce of the
\* string equals coerce of the string without its commas and is an Int
C20_CommasTransparentInt ==
    (Returned /\ DigitsAndCommas(call.raw)) =>
        /\ call.result = Coerce(call.key, WithoutCommas(call.raw))
        /\ call.result.value.kind = "int"

\* C20 amended: for every raw string of digits and commas, coerce of the
\* string equals coerce of the string without its commas (the same error
\* included); under a key outside FLOAT_KEYS it is the Int the comma-free
\* string denotes when that string is a decimal integer literal and Text of
\* the comma-free string otherwise; under a key of FLOAT_KEYS it is the Float
\* of the comma-free digits, and ValueError when no digit is left
C20_CommasTransparent ==
    (Returned /\ DigitsAndCommas(call.raw)) =>
        LET bare == WithoutCommas(call.raw)
        IN  /\ call.result = Coerce(call.key, bare)
            /\ call.result.value =
                 IF call.key \notin FLOAT_KEYS
                 THEN IF IsIntLit(bare) THEN Val("int", DecVal(bare), 0, << >>)
                      ELSE Val("str", 0, 0, bare)
                 ELSE IF bare # << >> THEN Val("float", DecVal(bare), 0, << >>)
                      ELSE Raises("ValueError")

\* "160,732" has been coerced to Int 160732
C20_Witness ==
    /\ Returned
    /\ call.raw = Raw160c732
    /\ call.result = [value |-> Val("int", 160732, 0, << >>), record |-> "longin"]

\* the number v the raw value denotes, scaled to MB for the units u
ScaledToMB(v, u) ==
    CASE u = "KB" -> Div1024(v)
      [] u = "GB" -> Mul1024(v)
      [] OTHER    -> v

SameNumber(x, y) ==
    /\ x.kind \in {"int", "float", "bool"}
    /\ y.kind \in {"int", "float", "bool"}
    /\ x.text = y.text
    /\ Reduce(x.num, x.frac) = Reduce(y.num, y.frac)

\* C21: an ETL byte count whose raw value is a number v, reported in KB, MB
\* or GB, is yielded under the name ending in '(MB)' with the value v/1024,
\* v or v*1024
C21_EtlNormalizedToMB ==
    LET v == archiver_literal_eval_chars(call.raw)
    IN  (/\ call.st \in {"dropped", "returned"}
         /\ IsEtlName(call.name)
         /\ v.kind \in {"int", "float"})
        => /\ call.st = "returned"
           /\ call.item.name = MetricName(EtlStem, "MB")
           /\ SameNumber(call.result.value, ScaledToMB(v, call.name.units))

\* a store() of group g is at `await self.es.create(index=index, ...)`
AtCreate(g) == storing[g] > 0 /\ ~dated_index[g].pending

\* C26: every create() targets an index this process has successfully
\* ensured: indices.create was called for its name and did not fail, also on
\* the store() calls that follow a failed indices.create
C26_CreateIntoEnsuredIndex ==
    \A g \in Groups : AtCreate(g) => dated_index[g].name \in hist.ensured[g]

\* a store() of group g raises (at indices.create or at es.create)
StoreRaises(g) == StoreEnds(g) /\ ~StoreReturns(g)

\* _update_group decides for its group whether to store
Decides == pcU.st = "decide" /\ pcU' # pcU

\* C25: the document count of a group goes up by one exactly when a store()
\* of the group returns, and stays when it raises; while the count is 0 and
\* the group has no init_document, every pass that reaches the decision
\* invokes store() again
C25_FailedFirstStoreRetried ==
    [][\A g \in Groups :
          /\ (g \in DOMAIN document_count /\ StoreReturns(g))
                => document_count'[g] = document_count[g] + 1
          /\ (g \in DOMAIN document_count /\ ~StoreReturns(g))
                => document_count'[g] = document_count[g]
          /\ (/\ Decides
              /\ CurGroup = g
              /\ document_count[g] = 0
              /\ init_document[g] = None)
                => storing'[g] = storing[g] + 1]_vars

\* the first store() of a group without init_document raised, and the next
\* pass has invoked store() again
C25_Witness ==
    \E g \in Groups :
        /\ g \in DOMAIN document_count
        /\ document_count[g] = 0
        /\ init_document[g] = None
        /\ hist.stores[g] = 2
        /\ storing[g] = 1
        /\ passes = 2

\* C28: when Request.make raises, last_response keeps its value; the next
\* call of make on that Request makes a network request again, unless an
\* earlier response is still fresh, which is then what it returns
C28_FailedFetchNotCached ==
    [][\A r \in Reqs :
          /\ (MakeStep(r) /\ FetchRaises) => last_response'[r] = last_response[r]
          /\ (MakeStep(r) /\ hist.failed[r] /\ ~CacheHit(last_response[r], now))
                => (hist'.lastnet[r] = now \/ FetchRaises)
          /\ (MakeStep(r) /\ hist.failed[r] /\ CacheHit(last_response[r], now))
                => (~FetchRaises /\ items' = last_response[r].data)]_vars

\* a fetch of a Request failed, and the updater is about to call make on
\* it again
C28_Witness ==
    /\ pcU.st = "fetch"
    /\ hist.failed[<<CurGroup, pcU.s>>]
    /\ last_response[<<CurGroup, pcU.s>>] # None

\* the startup hook of g has restored the Slots from a document
SlotsRestored(g) == LogRec("Restored state from last document", g) \in log

\* C24: once the startup hook of a group has returned, init_document is
\* present if and only if the Slots were restored from a document, whatever
\* the two last-document queries gave
C24_InitDocumentIffRestored ==
    \A g \in Groups :
        pcS[g] = DoneS => (init_document[g] # None <=> SlotsRestored(g))

\* the documents of g that were in the index when the process started
PriorDocs(g) == Len(es[g]) - document_count[g]

\* C29: the documents successive store() calls append for one group carry
\* strictly increasing timestamps, later than those of the documents already
\* in the index, so that the last-document query returns the document
\* appended last
C29_TimestampsIncrease ==
    \A g \in Groups :
        g \in DOMAIN document_count =>
            \A i, j \in 1..Len(es[g]) :
                (i < j /\ j > PriorDocs(g)) => es[g][i].ts < es[g][j].ts

\* C22: every Slot change is persisted.  When a pass of a group ends without
\* an exception (every fetch succeeded, and store() returned if it was
\* called), no Slot of the group holds a value the reconciler wrote in this
\* run that is in no document appended since; the passes that follow find
\* the Slots equal to the data and store nothing
C22_ChangeEventuallyPersisted ==
    pcU.st = "group_sleep" => hist.unsaved[CurGroup] = {}

\* C27: convergence of a pass.  When a call of _update_group that began after
\* the group's startup hook had returned ends without an exception, every
\* Slot the fetched data had an item for, and whose write did not fail,
\* holds the value of the last item processed for it
C27_PassConverges ==
    (pcU.st = "group_sleep" /\ hist.cur.restored) =>
        \A a \in DOMAIN hist.cur.last :
            slots[CurGroup][a].value = hist.cur.last[a]

\* such a call has ended after it wrote a Slot that differed from its item
C27_Witness ==
    /\ pcU.st = "group_sleep" /\ hist.cur.restored /\ changed
    /\ \E a \in DOMAIN hist.cur.last :
          /\ slots[CurGroup][a].value = hist.cur.last[a]
          /\ slots[CurGroup][a].timestamp = now

\* C23: no group is starved by the failure of a group registered before it.
\* When a pass of the updater ends, by the for loop's end or by the except
\* block, every registered group has been reconciled in one of the passes so
\* far, whatever failed in the groups before it
C23_NoGroupStarved ==
    pcU.st = "rate_sleep" =>
        \A k \in 1..Len(dynamic_groups) : hist.visits[dynamic_groups[k]] > 0

\* C30: slot creation never overwrites the structural members of a group.
\* While from_request builds a class and after it, `requests` and
\* `key_to_attr_map` are the list and the map the build started from, never
\* the pvproperty of an item, whatever attribute names the items have
C30_MembersNeverShadowed ==
    /\ \A a \in DOMAIN InitClsdict : clsdict[a] = InitClsdict[a]
    /\ \A g \in Groups : \A a \in DOMAIN InitClsdict : ~Shadowed(g, a)

====
